---- MODULE Spec2Model ----
(***************************************************************************)
(* A model of easy_srtm (src/src/lib.rs): the SRTM tile addressing          *)
(* functions, the resolution detector and the Tiles handle cache.          *)
(*                                                                         *)
(* f32 coordinates are modelled in sign-magnitude form on the binary grid  *)
(* of 2^-16 degree: [neg, mag] denotes (-1)^neg * mag / Unit.  Every such  *)
(* value below 256 degrees is an f32, and on that grid every f32 operation *)
(* of the code is exact: floor, v - floor(v), and the product by 3600      *)
(* (= 225 * 2^4) or 1200 (= 75 * 2^4), whose significand stays below 2^24. *)
(* Negative zero is the value [neg |-> TRUE, mag |-> 0].                   *)
(***************************************************************************)
EXTENDS Integers, Sequences, FiniteSets, TLC

VARIABLES
    \* -- the Tiles instance
    handles,        \* Tiles.handles: filename -> the File cached under it
    \* -- the tiles directory and the files in it
    path,           \* filename -> the inode linked under it, 0 when none
    locked,         \* the filenames whose open is refused (permission)
    inodes,         \* inode -> the byte length of the file
    nino,           \* inodes allocated so far
    \* -- File values and the calls made
    opened,         \* filename -> the descriptors File::open returned for it
    closed,         \* the descriptors whose File was dropped
    attempts,       \* filename -> the File::open calls made for it
    calls,          \* filename -> the elevation calls that mapped to it
    last,           \* what the last completed elevation call saw and returned
    seen,           \* filename -> the File, length and outcome of its last call
    prev,           \* seen[last.name] as it was before the last call
    nenv,           \* changes made to the directory so far
    cs,             \* caller -> its place inside elevation (interleaved calls)
    \* -- the pure functions applied to sampled arguments
    inLat, inLng,   \* the arguments lat, lng of the function under check
    inRes,          \* the argument resolution of srtm_file_coord
    inSize,         \* the argument filesize of Resolution::try_from
    outName,        \* the result of srtm_file_name, <<>> before the call
    outCoord,       \* the result of srtm_file_coord, <<>> before the call
    outRes          \* the result of Resolution::try_from, "none" before the call

tileVars == <<handles, path, locked, inodes, nino, opened, closed, attempts,
              calls, last, seen, prev, nenv, cs>>
fnVars == <<inLat, inLng, inRes, inSize, outName, outCoord, outRes>>

\* ------------------------------------------------------------------ bounds
\* number of evenly spaced fractional parts sampled inside a degree
FracSteps == 5
\* number of sample positions i/n taken along a tile side
PixSteps == 3
\* largest distance, in bytes, of a sampled file length from a legal size
MaxLenDelta == 2

\* ------------------------------------------------------- f32 on the grid
Unit == 256 * 256

F32(neg, mag) == [neg |-> neg, mag |-> mag]
\* the grid point nearest to i/n degree, in grid units
NearestGrid(i, n) == (i * Unit + n \div 2) \div n
Deg(d) == F32(d < 0, (IF d < 0 THEN 0 - d ELSE d) * Unit)

\* v >= 0.0 (IEEE: -0.0 >= 0.0 is true)
GeZero(v) == ~v.neg \/ v.mag = 0
\* v < d for a positive whole number of degrees d
LtDeg(v, d) == (v.neg /\ v.mag > 0) \/ v.mag < d * Unit
\* f32::floor
Floor(v) ==
    IF v.neg
    THEN F32(TRUE, ((v.mag + Unit - 1) \div Unit) * Unit)
    ELSE F32(FALSE, (v.mag \div Unit) * Unit)
\* f32::abs
Abs(v) == F32(FALSE, v.mag)
\* v - v.floor(): never negative, +0.0 when v is whole
SubFloor(v) ==
    IF v.neg
    THEN F32(FALSE, Floor(v).mag - v.mag)
    ELSE F32(FALSE, v.mag - Floor(v).mag)
\* v * (n as f32), for v >= 0
MulU32(v, n) == F32(v.neg, v.mag * n)
\* f32::round: to the nearest whole number, halves away from zero
Round(v) == F32(v.neg, ((v.mag + Unit \div 2) \div Unit) * Unit)
\* mutant: halves (and everything else) rounded toward zero
RoundTrunc(v) == F32(v.neg, (v.mag \div Unit) * Unit)
\* `as u32` of a whole value: a negative one saturates to 0
AsU32(v) == IF v.neg THEN 0 ELSE v.mag \div Unit

\* ------------------------------------------------------------ resolution
SRTM1_FSIZE == 3601 * 3601 * 2
SRTM3_FSIZE == 1201 * 1201 * 2

Resolutions == {"SRTM1", "SRTM3"}
ResolutionError == "ResolutionError"

\* mutant: the two arms exchanged
TryFromSwapped(filesize) ==
    CASE filesize = SRTM1_FSIZE -> "SRTM3"
      [] filesize = SRTM3_FSIZE -> "SRTM1"
      [] OTHER -> ResolutionError
\* mutant: a file at least as long as a tile is accepted
TryFromAtLeast(filesize) ==
    CASE filesize >= SRTM1_FSIZE -> "SRTM1"
      [] filesize >= SRTM3_FSIZE -> "SRTM3"
      [] OTHER -> ResolutionError
\* Resolution::try_from
TryFrom(filesize) ==
    CASE filesize = SRTM1_FSIZE -> "SRTM1"
      [] filesize = SRTM3_FSIZE -> "SRTM3"
      [] OTHER -> ResolutionError

\* Resolution::side
Side(resolution) == IF resolution = "SRTM1" THEN 3601 ELSE 1201

\* --------------------------------------------------------- tile filename
DigitChars == <<"0", "1", "2", "3", "4", "5", "6", "7", "8", "9">>

RECURSIVE Digits(_)
\* the decimal digits of a natural number, most significant first
Digits(n) ==
    IF n < 10 THEN <<DigitChars[n + 1]>>
    ELSE Append(Digits(n \div 10), DigitChars[(n % 10) + 1])

RECURSIVE ZeroPad(_, _)
ZeroPad(s, width) == IF Len(s) >= width THEN s ELSE ZeroPad(<<"0">> \o s, width)

\* format!("{:0w}", v) of a whole, non-negative f32: its digits without a
\* fraction, zero-padded on the left to at least `width` characters
FormatPadded(v, width) == ZeroPad(Digits(v.mag \div Unit), width)

\* mutant: the magnitude is taken before the floor
cleanAbsFirst(v) == Floor(Abs(v))
\* the closure `clean` of srtm_file_name
clean(v) == Abs(Floor(v))

\* mutant: the test `lng < 180.0` left out
ewNoWrap(lng) == IF GeZero(lng) THEN "E" ELSE "W"
\* the letter `ew` of srtm_file_name
ew(lng) == IF GeZero(lng) /\ LtDeg(lng, 180) THEN "E" ELSE "W"
\* the letter `ns` of srtm_file_name
ns(lat) == IF GeZero(lat) THEN "N" ELSE "S"

srtm_file_name(lat, lng) ==
    <<ns(lat)>> \o FormatPadded(clean(lat), 2) \o <<ew(lng)>>
        \o FormatPadded(clean(lng), 3) \o <<".", "h", "g", "t">>

\* ------------------------------------------------------ pixel coordinates
\* the result of a u32 subtraction that wrapped (a panic in a debug build)
Underflow == 0 - 1
U32Sub(a, b) == IF b <= a THEN a - b ELSE Underflow

\* mutant: scaled by the grid side instead of side - 1
pixel_index_side(v, side) == AsU32(Round(MulU32(SubFloor(v), side + 1)))
\* mutant: truncation instead of rounding
pixel_index_trunc(v, side) == AsU32(RoundTrunc(MulU32(SubFloor(v), side)))
\* the closure `pixel_index` of srtm_file_coord; `side` is its captured side
pixel_index(v, side) == AsU32(Round(MulU32(SubFloor(v), side)))

srtm_file_coord(lat, lng, resolution) ==
    LET side == Side(resolution) - 1
    IN  <<pixel_index(lng, side), U32Sub(side, pixel_index(lat, side))>>

\* ------------------------------------------------------------ bounds
\* elevation calls made on the instance
MaxCalls == 2
\* changes made to the directory while the instance lives
MaxEnv == 2
\* files ever created in the directory
MaxInodes == 2
\* callers sharing the instance in the interleaved specification
NumCallers == 2

\* ------------------------------------------------------- the tile files
\* the calls made: two points of the tile N49W001 (the pixels (1, 1) and
\* (1, 3500) of the unit test), and of N49W002 the point 49.4, -1.3 and the
\* point of its last sample (whole latitude, largest fractional longitude)
CallCoords ==
    {<<F32(FALSE, 49 * Unit + NearestGrid(3599, 3600)), F32(TRUE, Unit - NearestGrid(1, 3600))>>,
     <<F32(FALSE, 49 * Unit + NearestGrid(100, 3600)), F32(TRUE, Unit - NearestGrid(1, 3600))>>,
     <<F32(FALSE, 49 * Unit + 26214), F32(TRUE, Unit + 19661)>>,
     <<F32(FALSE, 49 * Unit), F32(TRUE, Unit + 1)>>}
Names == {srtm_file_name(c[1], c[2]) : c \in CallCoords}
\* the lengths files are given: both legal ones and a tile cut short
FileLens == {SRTM1_FSIZE, SRTM3_FSIZE, SRTM1_FSIZE - 2}
\* the I/O step of a call that the system fails, if the call gets to it
Faults == {"none", "metadata", "seek", "read"}

\* byte `off` of the file of inode `ino`: every file has its own content
ByteAt(ino, off) == (off * 7 + (off \div 256) * 3 + ino * 101) % 256
\* an unsigned 16-bit pattern as i16
ToI16(u) == IF u >= 32768 THEN u - 65536 ELSE u
\* read_i16::<BigEndian> at the cursor position pos
ReadI16BE(ino, pos) == ToI16(ByteAt(ino, pos) * 256 + ByteAt(ino, pos + 1))

\* ------------------------------------------------------- Tiles::elevation
Ok(v, index, pos) == [kind |-> "Ok", stage |-> "done", value |-> v, index |-> index, pos |-> pos]
Err(kind, stage) == [kind |-> kind, stage |-> stage, value |-> 0, index |-> 0, pos |-> 0]

\* mutant: the lookup never finds the entry
CacheHitNever(map, filename) == FALSE
\* self.handles.borrow().get(&filename).is_some()
CacheHit(map, filename) == filename \in DOMAIN map

\* File::open(self.directory.join(filename)) succeeds
CanOpen(filename) == path[filename] # 0 /\ filename \notin locked

\* mutant: the map keeps the newest entry only
InsertOnly(map, filename, file) == [k \in {filename} |-> file]
\* HashMap::insert: the entry of the key is set, a former value is dropped
Insert(map, filename, file) ==
    [k \in DOMAIN map \cup {filename} |-> IF k = filename THEN file ELSE map[k]]
Dropped(map, filename) == IF filename \in DOMAIN map THEN {map[filename].fd} ELSE {}

\* mutant: rows of side - 1 samples
SampleIndexShort(x, y, resolution) == x + y * (Side(resolution) - 1)
\* let index = x + y * resolution.side()
SampleIndex(x, y, resolution) == x + y * Side(resolution)

\* mutant: the resolution is kept from the previous call made through f, when
\* that call found a legal length
ReadHeightKeptResolution(f, lat, lng, fault) ==
    IF fault = "metadata" THEN Err("IoError", "metadata")
    ELSE
    LET len == inodes[f.ino]
        kept == {seen[n].len : n \in {m \in DOMAIN seen :
                    seen[m].file = f /\ TryFrom(seen[m].len) # ResolutionError}}
        resolution == IF kept = {} THEN TryFrom(len)
                      ELSE TryFrom(CHOOSE l \in kept : TRUE)
    IN  IF resolution = ResolutionError THEN Err(ResolutionError, "resolution")
        ELSE
        LET xy == srtm_file_coord(lat, lng, resolution)
            index == SampleIndex(xy[1], xy[2], resolution)
            pos == index * 2
        IN  IF fault = "seek" THEN Err("IoError", "seek")
            ELSE IF fault = "read" \/ pos + 2 > len THEN Err("IoError", "read")
            ELSE Ok(ReadI16BE(f.ino, pos), index, pos)
\* the closure applied to the cached File f: metadata, resolution, pixel,
\* index, seek, read; `?` returns the first error
ReadHeight(f, lat, lng, fault) ==
    IF fault = "metadata" THEN Err("IoError", "metadata")
    ELSE
    LET len == inodes[f.ino]
        resolution == TryFrom(len)
    IN  IF resolution = ResolutionError THEN Err(ResolutionError, "resolution")
        ELSE
        LET xy == srtm_file_coord(lat, lng, resolution)
            index == SampleIndex(xy[1], xy[2], resolution)
            pos == index * 2
        IN  IF fault = "seek" THEN Err("IoError", "seek")
            ELSE IF fault = "read" \/ pos + 2 > len THEN Err("IoError", "read")
            ELSE Ok(ReadI16BE(f.ino, pos), index, pos)

NoFile == [fd |-> 0, ino |-> 0]
NewFile(filename) == [fd |-> Cardinality(UNION {opened[n] : n \in Names}) + 1,
                      ino |-> path[filename]]
NoCall ==
    [called |-> FALSE, lat |-> Deg(0), lng |-> Deg(0), fault |-> "none", name |-> <<>>,
     hit |-> FALSE, tried |-> FALSE, disk |-> "absent", diskIno |-> 0, diskLen |-> 0,
     file |-> NoFile, len |-> 0, result |-> Err("none", "none")]
\* the record of a call: its arguments, what was at the path and in the cache
\* when it was made, the File it read and what it returned
CallRecord(lat, lng, fault, filename, hit, tried, file, result) ==
    [called |-> TRUE, lat |-> lat, lng |-> lng, fault |-> fault, name |-> filename,
     hit |-> hit, tried |-> tried,
     disk |-> IF path[filename] = 0 THEN "absent"
              ELSE IF filename \in locked THEN "locked" ELSE "present",
     diskIno |-> path[filename],
     diskLen |-> IF path[filename] = 0 THEN 0 ELSE inodes[path[filename]],
     file |-> file,
     len |-> IF file.ino = 0 THEN 0 ELSE inodes[file.ino],
     result |-> result]

\* what is kept of a call for the next one on the same filename
NoSummary == [called |-> FALSE, file |-> NoFile, len |-> 0, kind |-> "none"]
Summary(call) ==
    [called |-> TRUE, file |-> call.file, len |-> call.len, kind |-> call.result.kind]

RECURSIVE SumOver(_, _)
SumOver(f, S) ==
    IF S = {} THEN 0
    ELSE LET n == CHOOSE n \in S : TRUE IN f[n] + SumOver(f, S \ {n})
TotalCalls == SumOver(calls, Names)

Callers == 1 .. NumCallers
Idle == [pc |-> "idle", lat |-> Deg(0), lng |-> Deg(0), filename |-> <<>>,
         cachehit |-> FALSE, file |-> NoFile, result |-> Err("none", "none")]

\* the directory when the instance is made: empty; files come and go later
DirInit ==
    /\ path = [n \in Names |-> 0]
    /\ locked = {}
    /\ inodes = [i \in 1 .. MaxInodes |-> 0]
    /\ nino = 0
    /\ nenv = 0

\* Tiles::new(directory): no handle, and no file opened
TilesInit ==
    /\ handles = <<>>
    /\ opened = [n \in Names |-> {}]
    /\ closed = {}
    /\ attempts = [n \in Names |-> 0]
    /\ calls = [n \in Names |-> 0]
    /\ last = NoCall
    /\ seen = [n \in Names |-> NoSummary]
    /\ prev = NoSummary

\* one call tiles.elevation(lat, lng), from entry to return
Elevation(lat, lng, fault) ==
    \E filename \in {srtm_file_name(lat, lng)} :
    \E cachehit \in {CacheHit(handles, filename)} :
        /\ calls' = [calls EXCEPT ![filename] = @ + 1]
        /\ IF ~cachehit /\ ~CanOpen(filename)
           THEN \* File::open(..)? returns the error
                /\ attempts' = [attempts EXCEPT ![filename] = @ + 1]
                /\ last' = CallRecord(lat, lng, fault, filename, cachehit, TRUE, NoFile,
                                      Err("IoError", "open"))
                /\ UNCHANGED <<handles, opened, closed>>
           ELSE \E file \in {NewFile(filename)} :
                \E map \in {IF cachehit THEN handles ELSE Insert(handles, filename, file)} :
                    /\ handles' = map
                    /\ attempts' = IF cachehit THEN attempts
                                   ELSE [attempts EXCEPT ![filename] = @ + 1]
                    /\ opened' = IF cachehit THEN opened
                                 ELSE [opened EXCEPT ![filename] = @ \cup {file.fd}]
                    /\ closed' = IF cachehit THEN closed
                                 ELSE closed \cup Dropped(handles, filename)
                    /\ last' = CallRecord(lat, lng, fault, filename, cachehit, ~cachehit,
                                          map[filename],
                                          ReadHeight(map[filename], lat, lng, fault))
        /\ prev' = seen[filename]
        /\ seen' = [seen EXCEPT ![filename] = Summary(last')]

\* --------------------------------------------- the directory's other users
\* a new file of the given length is put under the name (created, or moved
\* over the file that was there, which stays open for who holds it)
LinkFile(filename, len) ==
    /\ nino < MaxInodes
    /\ nino' = nino + 1
    /\ inodes' = [inodes EXCEPT ![nino + 1] = len]
    /\ path' = [path EXCEPT ![filename] = nino + 1]
    /\ UNCHANGED locked
\* the file is unlinked
RemoveFile(filename) ==
    /\ path[filename] # 0
    /\ path' = [path EXCEPT ![filename] = 0]
    /\ UNCHANGED <<locked, inodes, nino>>
\* the file is cut or extended in place
ResizeFile(filename, len) ==
    /\ path[filename] # 0
    /\ inodes[path[filename]] # len
    /\ inodes' = [inodes EXCEPT ![path[filename]] = len]
    /\ UNCHANGED <<path, locked, nino>>
\* the permission to read the file is taken away or given back
ChmodFile(filename) ==
    /\ path[filename] # 0
    /\ locked' = IF filename \in locked THEN locked \ {filename}
                 ELSE locked \cup {filename}
    /\ UNCHANGED <<path, inodes, nino>>

EnvStep ==
    /\ nenv < MaxEnv
    /\ nenv' = nenv + 1
    /\ UNCHANGED <<handles, opened, closed, attempts, calls, last, seen, prev, cs, fnVars>>
Link == EnvStep /\ \E filename \in Names, len \in FileLens : LinkFile(filename, len)
Remove == EnvStep /\ \E filename \in Names : RemoveFile(filename)
Resize == EnvStep /\ \E filename \in Names, len \in FileLens : ResizeFile(filename, len)
Chmod == EnvStep /\ \E filename \in Names : ChmodFile(filename)

Call ==
    /\ TotalCalls < MaxCalls
    /\ \E c \in CallCoords, fault \in Faults : Elevation(c[1], c[2], fault)
    /\ UNCHANGED <<path, locked, inodes, nino, nenv, cs, fnVars>>

FnIdle ==
    /\ inLat = Deg(0) /\ inLng = Deg(0) /\ inRes = "SRTM1" /\ inSize = 0
    /\ outName = <<>> /\ outCoord = <<>> /\ outRes = "none"

Init == TilesInit /\ DirInit /\ cs = [c \in Callers |-> Idle] /\ FnIdle

Next == Call \/ Link \/ Remove \/ Resize \/ Chmod

\* ------------------------------- elevation, statement by statement, shared
\* line 191: the filename of the call
Enter(c, lat, lng) ==
    /\ cs[c].pc = "idle"
    /\ TotalCalls < MaxCalls
    /\ calls' = [calls EXCEPT ![srtm_file_name(lat, lng)] = @ + 1]
    /\ cs' = [cs EXCEPT ![c] = [Idle EXCEPT !.pc = "lookup", !.lat = lat, !.lng = lng,
                                           !.filename = srtm_file_name(lat, lng)]]
    /\ UNCHANGED <<handles, opened, closed, attempts>>
\* line 192: the lookup, under a borrow that ends with the statement
Lookup(c) ==
    /\ cs[c].pc = "lookup"
    /\ cs' = [cs EXCEPT ![c].cachehit = CacheHit(handles, cs[c].filename),
                        ![c].pc = IF CacheHit(handles, cs[c].filename) THEN "read" ELSE "open"]
    /\ UNCHANGED <<handles, opened, closed, attempts, calls>>
\* line 195: File::open, with no borrow held
Open(c) ==
    /\ cs[c].pc = "open"
    /\ attempts' = [attempts EXCEPT ![cs[c].filename] = @ + 1]
    /\ IF CanOpen(cs[c].filename)
       THEN /\ opened' = [opened EXCEPT ![cs[c].filename] = @ \cup {NewFile(cs[c].filename).fd}]
            /\ cs' = [cs EXCEPT ![c].file = NewFile(cs[c].filename), ![c].pc = "insert"]
       ELSE /\ cs' = [cs EXCEPT ![c].result = Err("IoError", "open"), ![c].pc = "idle"]
            /\ UNCHANGED opened
    /\ UNCHANGED <<handles, closed, calls>>
\* line 196: the insert, under a borrow of its own
InsertFile(c) ==
    /\ cs[c].pc = "insert"
    /\ handles' = Insert(handles, cs[c].filename, cs[c].file)
    /\ closed' = closed \cup Dropped(handles, cs[c].filename)
    /\ cs' = [cs EXCEPT ![c].pc = "read"]
    /\ UNCHANGED <<opened, attempts, calls>>
\* lines 199-212: get, the closure, and the return
Read(c) ==
    /\ cs[c].pc = "read"
    /\ cs' = [cs EXCEPT ![c].result = ReadHeight(handles[cs[c].filename], cs[c].lat,
                                                  cs[c].lng, "none"),
                        ![c].file = handles[cs[c].filename],
                        ![c].pc = "idle"]
    /\ UNCHANGED <<handles, opened, closed, attempts, calls>>

ConcFrame == UNCHANGED <<path, locked, inodes, nino, nenv, last, seen, prev, fnVars>>
CallerEnter == ConcFrame /\ \E c \in Callers, p \in CallCoords : Enter(c, p[1], p[2])
CallerLookup == ConcFrame /\ \E c \in Callers : Lookup(c)
CallerOpen == ConcFrame /\ \E c \in Callers : Open(c)
CallerInsert == ConcFrame /\ \E c \in Callers : InsertFile(c)
CallerRead == ConcFrame /\ \E c \in Callers : Read(c)

ConcNext ==
    \/ CallerEnter \/ CallerLookup \/ CallerOpen \/ CallerInsert \/ CallerRead
    \/ Link \/ Remove \/ Resize \/ Chmod

\* ------------------------------------------- the functions on sampled input
\* sample positions along a side of n intervals
PixIdx(n) == {1, 100, n - 1} \cup {k * (n \div PixSteps) + 1 : k \in 0 .. PixSteps - 1}
\* fractional parts of a degree, in grid units: evenly spaced ones, the
\* smallest and the largest, 1/32 (a half-way case of both resolutions:
\* 3600/32 = 112.5, 1200/32 = 37.5), 1/2, and the sample positions
\* the grid points nearest to 0.1, 0.3, 0.4, 0.7 and 0.9 degree
ExampleFracs == {6554, 19661, 26214, 45875, 58982}
FracSamples ==
    {k * (Unit \div FracSteps) : k \in 0 .. FracSteps - 1}
        \cup {1, Unit \div 32, Unit \div 2, Unit - 1}
        \cup ExampleFracs
        \cup {NearestGrid(i, 3600) : i \in PixIdx(3600)}
        \cup {NearestGrid(i, 1200) : i \in PixIdx(1200)}
LatDegs == {0, 49, 50, 88}
LngDegs == {0, 1, 178, 179}
LatSamples ==
    {F32(s, d * Unit + f) : s \in BOOLEAN, d \in LatDegs, f \in FracSamples}
        \cup {Deg(89), Deg(0 - 89)}
LngSamples ==
    {F32(s, d * Unit + f) : s \in BOOLEAN, d \in LngDegs, f \in FracSamples}
        \cup {Deg(180), Deg(0 - 180)}
\* the coordinates each sample of the other axis is paired with: both zeros,
\* the examples of the unit tests, and the largest fractional part
LatCore ==
    {F32(FALSE, 0), F32(TRUE, 0), F32(TRUE, 6554),
     F32(FALSE, 49 * Unit + 26214), F32(TRUE, 50 * Unit + 58982),
     F32(FALSE, 49 * Unit + NearestGrid(3599, 3600)), F32(FALSE, 88 * Unit + Unit - 1)}
LngCore ==
    {F32(FALSE, 0), F32(TRUE, 0), F32(TRUE, 6554),
     F32(TRUE, Unit + 19661), F32(FALSE, Unit + 45875),
     F32(TRUE, Unit - NearestGrid(1, 3600)), F32(FALSE, 179 * Unit + Unit - 1),
     Deg(180)}
SizeSamples ==
    {0, 1, 2, 1201 * 1201, 3601 * 3601, 1200 * 1200 * 2, 3600 * 3600 * 2, 2 * SRTM1_FSIZE}
        \cup {SRTM1_FSIZE + d : d \in (0 - MaxLenDelta) .. MaxLenDelta}
        \cup {SRTM3_FSIZE + d : d \in (0 - MaxLenDelta) .. MaxLenDelta}

FnInit ==
    /\ TilesInit /\ DirInit /\ cs = [c \in Callers |-> Idle]
    /\ outName = <<>>
    /\ outCoord = <<>>
    /\ outRes = "none"
    /\ \/ /\ \/ inLat \in LatSamples /\ inLng \in LngCore
             \/ inLat \in LatCore /\ inLng \in LngSamples
          /\ inRes \in Resolutions
          /\ inSize = 0
       \/ /\ inLat = Deg(0)
          /\ inLng = Deg(0)
          /\ inRes = "SRTM1"
          /\ inSize \in SizeSamples

FileName ==
    /\ outName = <<>>
    /\ outName' = srtm_file_name(inLat, inLng)
    /\ UNCHANGED <<inLat, inLng, inRes, inSize, outCoord, outRes>>
    /\ UNCHANGED tileVars

FileCoord ==
    /\ outCoord = <<>>
    /\ outCoord' = srtm_file_coord(inLat, inLng, inRes)
    /\ UNCHANGED <<inLat, inLng, inRes, inSize, outName, outRes>>
    /\ UNCHANGED tileVars

ResolutionTryFrom ==
    /\ outRes = "none"
    /\ outRes' = TryFrom(inSize)
    /\ UNCHANGED <<inLat, inLng, inRes, inSize, outName, outCoord>>
    /\ UNCHANGED tileVars

FnNext == FileName \/ FileCoord \/ ResolutionTryFrom

vars == <<tileVars, fnVars>>

\* the calls of one owner of the instance, one after the other
Spec == Init /\ [][Next]_vars
\* the calls of several callers, interleaved statement by statement
SpecConc == Init /\ [][ConcNext]_vars
\* the pure functions on sampled arguments
SpecFn == FnInit /\ [][FnNext]_vars

\* ===================================================== checked properties
\* -- reference arithmetic, written on integers and independent of the model
\* the digits of a field read back as a number
RECURSIVE FieldValue(_)
FieldValue(s) ==
    IF s = <<>> THEN 0
    ELSE 10 * FieldValue(SubSeq(s, 1, Len(s) - 1))
            + (CHOOSE d \in 0 .. 9 : DigitChars[d + 1] = s[Len(s)])
IsDigit(c) == \E d \in 1 .. 10 : DigitChars[d] = c
\* [NS]\d{2}[EW]\d{3}\.hgt
WellFormedName(s) ==
    /\ Len(s) = 11
    /\ s[1] \in {"N", "S"}
    /\ IsDigit(s[2]) /\ IsDigit(s[3])
    /\ s[4] \in {"E", "W"}
    /\ IsDigit(s[5]) /\ IsDigit(s[6]) /\ IsDigit(s[7])
    /\ SubSeq(s, 8, 11) = <<".", "h", "g", "t">>
\* floor(|v|) and |floor(v)| of a grid value
FloorOfAbs(v) == v.mag \div Unit
AbsOfFloor(v) == IF v.neg THEN (v.mag + Unit - 1) \div Unit ELSE v.mag \div Unit
\* v as a (signed) number of grid units, and comparisons of grid values
Units(v) == IF v.neg THEN 0 - v.mag ELSE v.mag
\* the distance of v, in grid units, from the whole degree below it
AboveFloor(v) == Units(v) - Unit * (IF v.neg THEN 0 - AbsOfFloor(v) ELSE AbsOfFloor(v))
\* num/den rounded to the nearest integer, halves away from zero (num >= 0)
RefRound(num, den) == (2 * num + den) \div (2 * den)
Str(a, b, c, d, e, f, g) == <<a, b, c, d, e, f, g, ".", "h", "g", "t">>

\* C4: Resolution::try_from answers every length: SRTM1 (side 3601) exactly
\* for 25934402, SRTM3 (side 1201) exactly for 2884802, ResolutionError for
\* every other length.
C4_TryFromTotal ==
    outRes # "none" =>
        /\ outRes \in {"SRTM1", "SRTM3", ResolutionError}
        /\ outRes = "SRTM1" <=> inSize = 25934402
        /\ outRes = "SRTM3" <=> inSize = 2884802
        /\ outRes = ResolutionError <=> inSize \notin {25934402, 2884802}
        /\ outRes = "SRTM1" => Side(outRes) = 3601
        /\ outRes = "SRTM3" => Side(outRes) = 1201
C4_Witness == outRes = ResolutionError /\ inSize = 25934402 + 1

\* the range of coordinates C5 speaks of: lat in [-89, 89], lng in [-179, 179]
InC5Range == inLat.mag <= 89 * Unit /\ inLng.mag <= 179 * Unit

\* C5 as stated: in that range the name has the fixed-width form and its
\* digit fields are floor(|lat|) and floor(|lng|).
C5_AsStated ==
    (outName # <<>> /\ InC5Range) =>
        /\ WellFormedName(outName)
        /\ FieldValue(SubSeq(outName, 2, 3)) = FloorOfAbs(inLat)
        /\ FieldValue(SubSeq(outName, 5, 7)) = FloorOfAbs(inLng)
\* C5 amended: in that range the name has the fixed-width form and its digit
\* fields are |floor(lat)| and |floor(lng)|.
C5_FixedWidthAbsOfFloor ==
    (outName # <<>> /\ InC5Range) =>
        /\ WellFormedName(outName)
        /\ FieldValue(SubSeq(outName, 2, 3)) = AbsOfFloor(inLat)
        /\ FieldValue(SubSeq(outName, 5, 7)) = AbsOfFloor(inLng)
\* -50.9, 1.7 is named S51E001.hgt
C5_Witness ==
    /\ inLat = F32(TRUE, 50 * Unit + 58982)
    /\ inLng = F32(FALSE, Unit + 45875)
    /\ outName = Str("S", "5", "1", "E", "0", "0", "1")

\* C6: the name is that of the cell's south-west corner: N iff lat >= 0,
\* E iff 0 <= lng < 180, digit fields |floor(lat)| and |floor(lng)|; with the
\* examples of the claim.
C6_SouthWestCorner ==
    outName # <<>> =>
        /\ outName[1] = (IF Units(inLat) >= 0 THEN "N" ELSE "S")
        /\ outName[Len(outName) - 7] =
              (IF Units(inLng) >= 0 /\ Units(inLng) < 180 * Unit THEN "E" ELSE "W")
        /\ FieldValue(SubSeq(outName, 2, Len(outName) - 8)) = AbsOfFloor(inLat)
        /\ FieldValue(SubSeq(outName, Len(outName) - 6, Len(outName) - 4))
              = AbsOfFloor(inLng)
        /\ (inLat = F32(FALSE, 49 * Unit + 26214) /\ inLng = F32(TRUE, Unit + 19661))
              => outName = Str("N", "4", "9", "W", "0", "0", "2")
        /\ (inLat = F32(TRUE, 50 * Unit + 58982) /\ inLng = F32(FALSE, Unit + 45875))
              => outName = Str("S", "5", "1", "E", "0", "0", "1")
        /\ (inLat = Deg(0) /\ inLng = F32(TRUE, 6554))
              => outName = Str("N", "0", "0", "W", "0", "0", "1")
        /\ (inLat = F32(TRUE, 6554) /\ inLng = Deg(0))
              => outName = Str("S", "0", "1", "E", "0", "0", "0")
        /\ (inLat.mag = 0 /\ inLng.mag = 0)
              => outName = Str("N", "0", "0", "E", "0", "0", "0")
        /\ inLng.mag = 180 * Unit => SubSeq(outName, 4, 7) = <<"W", "1", "8", "0">>
        /\ inLng = F32(FALSE, 179 * Unit + 58982)
              => SubSeq(outName, 4, 7) = <<"E", "1", "7", "9">>
\* longitude exactly 180 is named W180
C6_Witness ==
    /\ inLng = Deg(180)
    /\ inLat = F32(FALSE, 49 * Unit + 26214)
    /\ outName = Str("N", "4", "9", "W", "1", "8", "0")

\* C8: x and y lie in 0 .. side-1 of the grid side, and the subtraction
\* (side-1) - pixel_index(lat) does not underflow.
C8_PixelInGrid ==
    outCoord # <<>> =>
        /\ outCoord[2] # Underflow
        /\ 0 <= outCoord[1] /\ outCoord[1] <= Side(inRes) - 1
        /\ 0 <= outCoord[2] /\ outCoord[2] <= Side(inRes) - 1
\* the largest fractional parts reach the last column and the first row
C8_Witness ==
    /\ outCoord # <<>>
    /\ AboveFloor(inLat) = Unit - 1
    /\ AboveFloor(inLng) = Unit - 1
    /\ outCoord = <<Side(inRes) - 1, 0>>

Legal(len) == len \in {3601 * 3601 * 2, 1201 * 1201 * 2}
RefSide(len) == IF len = 3601 * 3601 * 2 THEN 3601 ELSE 1201
RefRes(len) == IF len = 3601 * 3601 * 2 THEN "SRTM1" ELSE "SRTM3"
\* the two bytes at off, off + 1 of a file, most significant first, as i16
RefI16(ino, off) ==
    LET u == ByteAt(ino, off) * 256 + ByteAt(ino, off + 1)
    IN  IF u > 32767 THEN u - 65536 ELSE u
\* whether the sample at 2 * (x + y * side) of the file `ino`, `len` bytes
\* long, is what the last call returned
ReturnedSampleOf(ino, len) ==
    LET side == RefSide(len)
        xy == srtm_file_coord(last.lat, last.lng, RefRes(len))
        idx == xy[1] + xy[2] * side
    IN  /\ last.result.kind = "Ok"
        /\ last.result.index = idx
        /\ last.result.pos = 2 * idx
        /\ last.result.value = RefI16(ino, 2 * idx)
        /\ idx < side * side
        /\ 2 * idx + 2 <= len
        /\ idx <= 2147483647
        /\ (xy = <<1, 1>> /\ side = 3601) => idx = 1 + 1 * 3601

\* C1: in calls made one after the other, a file is opened with success at
\* most once per filename, the cache holds that one handle, and a call that
\* finds the filename cached opens nothing and reads through the cached handle.
C1_OneOpenPerName ==
    /\ \A n \in Names :
          /\ Cardinality(opened[n]) <= 1
          /\ Cardinality(opened[n] \ closed) <= 1
          /\ n \in DOMAIN handles <=> opened[n] # {}
          /\ n \in DOMAIN handles => opened[n] = {handles[n].fd}
    /\ (last.called /\ last.hit) =>
          /\ ~last.tried
          /\ last.file = handles[last.name]
          /\ attempts[last.name] < calls[last.name]
\* two calls for one filename, one open
C1_Witness ==
    /\ last.called /\ last.hit
    /\ calls[last.name] = 2
    /\ attempts[last.name] = 1
    /\ Cardinality(opened[last.name]) = 1

C3_AsStated ==
    last.called =>
        /\ (last.disk # "present" \/ ~Legal(last.diskLen)) => last.result.kind # "Ok"
        /\ last.disk # "present" => last.result.kind = "IoError"
        /\ (last.disk = "present" /\ ~Legal(last.diskLen) /\ last.fault # "metadata")
              => last.result.kind = ResolutionError
        /\ (last.disk = "present" /\ Legal(last.diskLen) /\ last.fault = "none")
              => last.result.kind = "Ok"
\* C3 amended: the file a call uses is the one of the cached handle when the
\* filename is cached, and the one at the path otherwise.  Not cached and
\* absent or not openable: the I/O error of the open, and nothing else done.
\* Else, by the length of the file used: the format error for an illegal one
\* (once metadata succeeded), one sample for a legal one when metadata, seek
\* and read succeed, the I/O error of the first of them that fails.
C3_ErrorsByFileUsed ==
    last.called =>
        /\ last.result.kind \in {"Ok", "IoError", ResolutionError}
        /\ (~last.hit /\ last.disk # "present")
              => last.result = Err("IoError", "open") /\ last.file = NoFile
        /\ (last.hit \/ last.disk = "present") =>
              /\ last.file # NoFile
              /\ last.fault = "metadata" => last.result = Err("IoError", "metadata")
              /\ (last.fault # "metadata" /\ ~Legal(last.len))
                    => last.result = Err(ResolutionError, "resolution")
              /\ (last.fault \in {"seek", "read"} /\ Legal(last.len))
                    => last.result = Err("IoError", last.fault)
              /\ (last.fault = "none" /\ Legal(last.len))
                    => /\ last.result.kind = "Ok"
                       /\ last.result.value \in (0 - 32768) .. 32767
\* a sample is returned for a file that is no longer in the directory
C3_Witness ==
    /\ last.called /\ last.hit
    /\ last.disk = "absent"
    /\ last.result.kind = "Ok"

\* C7 as stated: when the file at the path has a legal size (and the I/O
\* succeeds), the call returns the big-endian i16 at 2 * (x + y * side) of
\* that file.
C7_AsStated ==
    (last.called /\ last.disk = "present" /\ Legal(last.diskLen) /\ last.fault = "none")
        => ReturnedSampleOf(last.diskIno, last.diskLen)
\* C7 amended: when the file the call uses (the cached handle's, else the one
\* just opened) has a legal size and the I/O succeeds, the call returns the
\* big-endian i16 at 2 * (x + y * side) of that file, side being the grid side
\* of its size; the index is below side * side, the two bytes lie inside the
\* file, and index * 2 fits a u32.
C7_SampleOfFileUsed ==
    (last.called /\ last.file # NoFile /\ Legal(last.len) /\ last.fault = "none")
        => ReturnedSampleOf(last.file.ino, last.len)
\* the pixel (1, 1) of an SRTM1 tile, read through a handle whose file has
\* been replaced in the directory
C7_Witness ==
    /\ last.called /\ last.hit
    /\ last.len = SRTM1_FSIZE
    /\ last.diskIno # last.file.ino /\ last.disk = "present" /\ Legal(last.diskLen)
    /\ last.result.kind = "Ok"
    /\ last.result.index = 3602

\* C10 as stated: no file is opened by Tiles::new, and File::open is invoked
\* at most once per filename over all the calls.
C10_AsStated ==
    /\ SumOver(calls, Names) = 0 => \A n \in Names : attempts[n] = 0
    /\ \A n \in Names : attempts[n] <= 1
\* C10 amended: Tiles::new opens no file; a file is opened only by an
\* elevation call that maps to its filename, at most once in a call; the open
\* succeeds at most once per filename; a failed open caches nothing, and
\* every call made while the filename is not cached invokes the open again.
C10_LazyOpenUntilSuccess ==
    /\ SumOver(calls, Names) = 0 =>
          handles = <<>> /\ \A n \in Names : attempts[n] = 0 /\ opened[n] = {}
    /\ \A n \in Names :
          /\ Cardinality(opened[n]) <= 1
          /\ attempts[n] <= calls[n]
          /\ n \notin DOMAIN handles => attempts[n] = calls[n] /\ opened[n] = {}
          /\ n \in DOMAIN handles => attempts[n] >= 1 /\ opened[n] # {}
\* an open that failed, and the open of the next call that succeeded
C10_Witness ==
    \E n \in Names :
        /\ attempts[n] = 2 /\ calls[n] = 2
        /\ Cardinality(opened[n]) = 1
        /\ n \in DOMAIN handles

\* C11: the resolution is not kept with the handle: a call that finds the
\* filename cached, made through the same File as the call before it on that
\* filename, works from the length that File has at the time of the call.  A
\* legal length gives the sample at 2 * (x + y * side) for the side of that
\* length, also when the call before saw the other legal length; an illegal
\* length gives the format error, also when the call before returned a sample.
C11_ResolutionRederived ==
    (last.called /\ last.hit /\ prev.called /\ prev.file = last.file) =>
        /\ (last.fault # "metadata" /\ ~Legal(last.len))
              => last.result = Err(ResolutionError, "resolution")
        /\ (last.fault = "none" /\ Legal(last.len))
              => /\ ReturnedSampleOf(last.file.ino, last.len)
                 /\ \A res \in Resolutions :
                       (last.len = (IF res = "SRTM1" THEN SRTM1_FSIZE ELSE SRTM3_FSIZE)
                           /\ prev.kind = "Ok" /\ prev.len # last.len)
                       => LET xy == srtm_file_coord(last.lat, last.lng, res)
                          IN  last.result.index = xy[1] + xy[2] * Side(res)
\* a sample from an SRTM1 file, then, through the same File, a sample from
\* the file cut in place to the SRTM3 size
C11_Witness ==
    /\ last.called /\ last.hit
    /\ prev.called /\ prev.file = last.file
    /\ prev.kind = "Ok" /\ prev.len = SRTM1_FSIZE
    /\ last.len = SRTM3_FSIZE
    /\ last.result.kind = "Ok"
    /\ last.result.index < 1201 * 1201

\* C12: an entry of the cache stays, bound to the same File, whatever is done
\* next: no step removes it, replaces it or drops its File, so the cached
\* filenames only grow; and the File opened by a call that then fails with the
\* format error (or any other error past the open) is in the cache after it.
C12_EntriesStay ==
    [][ /\ \A n \in DOMAIN handles :
              /\ n \in DOMAIN handles'
              /\ handles'[n] = handles[n]
              /\ handles[n].fd \notin closed'
        /\ (last' # last /\ last'.file # NoFile)
              => /\ last'.name \in DOMAIN handles'
                 /\ handles'[last'.name] = last'.file ]_vars
\* a call opened the file and failed with the format error; the next call on
\* that filename found the File in the cache and read through it
C12_Witness ==
    /\ last.called /\ last.hit
    /\ prev.called /\ prev.kind = ResolutionError
    /\ prev.file = last.file
    /\ handles[last.name] = last.file
    /\ Cardinality(opened[last.name]) = 1
====
